---- MODULE Spec2Model ----
(***************************************************************************)
(* A model of github_crypto_monitor.py: the poll loop track_repos with its *)
(* top-level restart wrapper, the tracker last_commits, the classifier     *)
(* analyze_commit and the notifier send_telegram_message.                  *)
(*                                                                         *)
(* Text is modelled by TLA+ strings (Len, \o and SubSeq act on them as on  *)
(* Python strings, with positions counted from 1).  Two characters cannot  *)
(* be written in a TLA+ string literal: the backquote, which is therefore  *)
(* left out of the escaped set below, and characters outside ASCII, so the *)
(* emoji of the message template are written as ASCII names (":bell:").    *)
(***************************************************************************)
EXTENDS Integers, Sequences, FiniteSets, TLC

(***************************************************************************)
(* Bounds of the model.                                                    *)
(***************************************************************************)
\* Number of poll cycles (started by the while loop or by a restart).
MaxCycles == 3
\* The notifier's inputs are at most this many chunks long after escaping.
MaxChunks == 3
\* The classifier's commit messages are made of at most this many fragments.
MaxFragments == 2

(***************************************************************************)
(* Program constants.                                                      *)
(***************************************************************************)
\* safe_message[i:i+4000]
ChunkSize == 4000
\* return text[:200]
FallbackLen == 200

\* REPOS = os.getenv("REPOS").split(",")
REPOS == <<"a/b", "c/d">>

\* Python's None.  TLC compares values of one type only, so None is a record
\* where the other values are records (a commit) and the string NoneStr where
\* they are strings (a sha, the name of an exception).
None == [type |-> "NoneType"]
NoneStr == "None"

Min(a, b) == IF a < b THEN a ELSE b

(***************************************************************************)
(* Python string and dict primitives.                                      *)
(***************************************************************************)
\* text[:n]
Prefix(text, n) == SubSeq(text, 1, Min(n, Len(text)))

\* needle in text
Contains(text, needle) ==
    \E i \in 1..(Len(text) - Len(needle) + 1) :
        SubSeq(text, i, i + Len(needle) - 1) = needle

UpperCase == "ABCDEFGHIJKLMNOPQRSTUVWXYZ"
LowerCase == "abcdefghijklmnopqrstuvwxyz"

LowerChar(c) ==
    IF \E i \in 1..Len(UpperCase) : SubSeq(UpperCase, i, i) = c
    THEN LET i == CHOOSE j \in 1..Len(UpperCase) : SubSeq(UpperCase, j, j) = c
         IN  SubSeq(LowerCase, i, i)
    ELSE c

\* text.lower()
RECURSIVE Lower(_)
Lower(text) ==
    IF Len(text) = 0 THEN ""
    ELSE IF Len(text) = 1 THEN LowerChar(text)
    ELSE LET h == Len(text) \div 2
         IN  Lower(SubSeq(text, 1, h)) \o Lower(SubSeq(text, h + 1, Len(text)))

\* d.get(k): the value stored for k, None when d holds no entry for k
DictGet(d, k) == IF k \in DOMAIN d THEN d[k] ELSE NoneStr

\* d[k] = v
DictSet(d, k, v) == [x \in (DOMAIN d) \cup {k} |-> IF x = k THEN v ELSE d[x]]

\* sep.join(parts)
RECURSIVE Join(_, _)
Join(sep, parts) ==
    IF Len(parts) = 0 THEN ""
    ELSE IF Len(parts) = 1 THEN parts[1]
    ELSE parts[1] \o sep \o Join(sep, Tail(parts))

(***************************************************************************)
(* The remote services.  A commit is immutable, so a repository and a sha  *)
(* determine the commit object the commit-list API returns and the files   *)
(* the commit-detail API returns for it.                                   *)
(***************************************************************************)
Shas == {"111", "222"}

CommitMessageOf(repo, sha) ==
    IF repo = "a/b"
    THEN (IF sha = "111" THEN "Initial import" ELSE "fix vulnerability in parser")
    ELSE (IF sha = "111" THEN "Merge performance work" ELSE "Update README.md")

FilesOf(repo, sha) ==
    IF repo = "a/b"
    THEN (IF sha = "111" THEN <<[filename |-> "main.py", status |-> "added"]>> ELSE <<>>)
    ELSE (IF sha = "111"
          THEN <<[filename |-> "core.py", status |-> "modified"]>>
          ELSE <<[filename |-> "old.md", status |-> "removed"],
                 [filename |-> "README.md", status |-> "modified"]>>)

\* One element of the commit-list response: sha, commit.message, html_url, url.
CommitOf(repo, sha) ==
    [sha      |-> sha,
     message  |-> CommitMessageOf(repo, sha),
     html_url |-> "https://github.com/" \o repo \o "/commit/" \o sha,
     url      |-> "https://api.github.com/repos/" \o repo \o "/commits/" \o sha]

\* Outcomes of requests.get(url, headers=HEADERS, timeout=10) followed by
\* raise_for_status() and json(): the request fails, times out, answers with
\* an HTTP error status, or succeeds with a commit list, newest first, that
\* may be empty.
CommitListResponses(repo) ==
    {[kind |-> k, body |-> <<>>] : k \in {"network_error", "timeout", "http_error"}}
    \cup {[kind |-> "ok", body |-> <<>>]}
    \cup {[kind |-> "ok", body |-> <<CommitOf(repo, s)>>] : s \in Shas}
    \cup {[kind |-> "ok", body |-> <<CommitOf(repo, p[1]), CommitOf(repo, p[2])>>] :
             p \in {q \in Shas \X Shas : q[1] # q[2]}}

\* Outcomes of requests.get(commit_details_url, headers=HEADERS).json(): the
\* request fails (an exception), answers with an HTTP error status whose JSON
\* body has no "files" key, or succeeds with the commit's files.
CommitDetailResponses(repo, sha) ==
    {[kind |-> "network_error", json |-> [message |-> "unreachable"]],
     [kind |-> "http_error", json |-> [message |-> "API rate limit exceeded"]],
     [kind |-> "ok", json |-> [sha |-> sha, files |-> FilesOf(repo, sha)]]}

\* Outcomes of summarizer(text, max_length=..., min_length=..., do_sample=False):
\* an exception, or one summary string.
SummarizerResponses(text) ==
    {[raised |-> TRUE, summary_text |-> ""],
     [raised |-> FALSE, summary_text |-> Prefix(text, 12)]}

(***************************************************************************)
(* get_latest_commit                                                       *)
(***************************************************************************)
\* The result of a call: the value returned, or an exception that leaves it.
Returned(v) == [raised |-> FALSE, value |-> v]
Raised(e) == [raised |-> TRUE, value |-> e]

\* Mutant: only the failures of the request itself are caught, not the
\* HTTPError of raise_for_status().
get_latest_commit_HttpErrorEscapes(resp) ==
    IF resp.kind \in {"network_error", "timeout"}
    THEN Returned(None)
    ELSE IF resp.kind = "http_error"
         THEN Raised("HTTPError")
         ELSE IF Len(resp.body) = 0
              THEN Raised("IndexError")
              ELSE Returned(resp.body[1])

get_latest_commit(resp) ==
    IF resp.kind \in {"network_error", "timeout", "http_error"}
    THEN Returned(None)                       \* except requests.RequestException
    ELSE IF Len(resp.body) = 0
         THEN Raised("IndexError")            \* response.json()[0] of an empty list
         ELSE Returned(resp.body[1])

(***************************************************************************)
(* summarize_text, analyze_commit                                          *)
(***************************************************************************)
\* Mutant: the fallback returns the whole text.
summarize_text_WholeText(text, summarizer) ==
    IF summarizer.raised
    THEN text
    ELSE summarizer.summary_text

\* try: return summarizer(text, ...)[0]["summary_text"]
\* except Exception: return text[:200]
summarize_text(text, summarizer) ==
    IF summarizer.raised
    THEN Prefix(text, FallbackLen)
    ELSE summarizer.summary_text

bullish_terms ==
    <<"scaling", "upgrade", "performance", "optimization",
      "security", "merge", "enhancement", "feature">>
bearish_terms ==
    <<"bug", "deprecated", "reverted", "removed",
      "issue", "vulnerability", "rollback", "fix">>

Bullish == "Bullish :chart_up:"
Bearish == "Bearish :chart_down:"
Neutral == "Neutral :scales:"
BullishReason == "New features or optimizations detected."
BearishReason == "Bug fixes, deprecations, or rollbacks detected."
NeutralReason == "No strong indicators found."

\* Mutant: the terms are looked for in the message as written, without
\* .lower().
AnyTermIn_CaseSensitive(terms, commit_message) ==
    \E k \in 1..Len(terms) : Contains(commit_message, terms[k])

\* any(word in commit_message.lower() for word in terms)
AnyTermIn(terms, commit_message) ==
    LET lowered == Lower(commit_message)
    IN  \E k \in 1..Len(terms) : Contains(lowered, terms[k])

\* [f["filename"] for f in commit_files if f["status"] == status]
RECURSIVE FilesWithStatus(_, _)
FilesWithStatus(commit_files, status) ==
    IF Len(commit_files) = 0 THEN <<>>
    ELSE IF Head(commit_files).status = status
         THEN <<Head(commit_files).filename>> \o FilesWithStatus(Tail(commit_files), status)
         ELSE FilesWithStatus(Tail(commit_files), status)

\* Mutant: the bearish branch is tested before the bullish branch.
analyze_commit_BearishFirst(commit_message, commit_files, summarizer) ==
    LET summary       == summarize_text(commit_message, summarizer)
        added_files   == FilesWithStatus(commit_files, "added")
        removed_files == FilesWithStatus(commit_files, "removed")
    IN  IF AnyTermIn(bearish_terms, commit_message) \/ Len(removed_files) > 0
        THEN <<summary, Bearish, BearishReason>>
        ELSE IF AnyTermIn(bullish_terms, commit_message) \/ Len(added_files) > 0
             THEN <<summary, Bullish, BullishReason>>
             ELSE <<summary, Neutral, NeutralReason>>

\* The triple (summary, sentiment_label, explanation).
analyze_commit(commit_message, commit_files, summarizer) ==
    LET summary       == summarize_text(commit_message, summarizer)
        added_files   == FilesWithStatus(commit_files, "added")
        removed_files == FilesWithStatus(commit_files, "removed")
    IN  IF AnyTermIn(bullish_terms, commit_message) \/ Len(added_files) > 0
        THEN <<summary, Bullish, BullishReason>>
        ELSE IF AnyTermIn(bearish_terms, commit_message) \/ Len(removed_files) > 0
             THEN <<summary, Bearish, BearishReason>>
             ELSE <<summary, Neutral, NeutralReason>>

(***************************************************************************)
(* escape_markdown and the chunks of send_telegram_message                 *)
(***************************************************************************)
\* Mutant: the character class lacks the full stop.
EscapeChars_WithoutFullStop ==
    {"_", "*", "[", "]", "(", ")", "~", ">", "#", "+", "-", "=", "|", "{", "}", "!"}

\* The character class of escape_chars, without the backquote.
EscapeChars ==
    {"_", "*", "[", "]", "(", ")", "~", ">", "#", "+", "-", "=", "|", "{", "}", ".", "!"}

\* re.sub(escape_chars, r"\\\g<0>", text)
RECURSIVE escape_markdown(_)
escape_markdown(text) ==
    IF Len(text) = 0 THEN ""
    ELSE IF Len(text) = 1 THEN (IF text \in EscapeChars THEN "\\" \o text ELSE text)
    ELSE LET h == Len(text) \div 2
         IN  escape_markdown(SubSeq(text, 1, h))
                 \o escape_markdown(SubSeq(text, h + 1, Len(text)))

\* list(range(start, stop, step))
RECURSIVE Range(_, _, _)
Range(start, stop, step) ==
    IF start >= stop THEN <<>> ELSE <<start>> \o Range(start + step, stop, step)

\* Mutant: the range stops one chunk size before the end, so a trailing
\* partial chunk is lost.
Chunks_DropsPartialChunk(text) ==
    LET starts == Range(0, Len(text) - ChunkSize + 1, ChunkSize)
    IN  [k \in 1..Len(starts) |-> SubSeq(text, starts[k] + 1, starts[k] + ChunkSize)]

\* [safe_message[i:i+4000] for i in range(0, len(safe_message), 4000)]
Chunks(text) ==
    LET starts == Range(0, Len(text), ChunkSize)
    IN  [k \in 1..Len(starts) |->
            SubSeq(text, starts[k] + 1, Min(starts[k] + ChunkSize, Len(text)))]

\* The f-string appended to messages.
FormatMessage(repo, summary, sentiment, explanation, commit_url) ==
    ":bell: **" \o repo \o " Update**\n"
    \o ":memo: " \o summary \o "\n"
    \o ":bar_chart: Sentiment: " \o sentiment \o "\n"
    \o ":monocle: Reason: " \o explanation \o "\n"
    \o ":link: [View Commit](" \o commit_url \o ")"

(***************************************************************************)
(* State.                                                                  *)
(***************************************************************************)
VARIABLES
    last_commits,   \* the module-level dict: repository -> last processed sha
    messages,       \* track_repos: the batch of the current cycle
    repo_i,         \* track_repos: position of the for loop in REPOS
    commit,         \* track_repos: the commit get_latest_commit returned
    commit_files,   \* track_repos: commit_details.get("files", [])
    pc,             \* the statement the process is at
    error,          \* the exception caught by the top-level except, or None
    message,        \* send_telegram_message: its argument
    safe_message,   \* send_telegram_message: escape_markdown(message)
    chunks,         \* send_telegram_message: the list the for loop iterates
    chunk_i,        \* send_telegram_message: position of the for loop
    cycle,          \* history: number of the current poll cycle
    batch,          \* history: the (repo, sha) of each element of messages
    appended,       \* history: how often each (repo, sha) was appended to a batch
    calls,          \* history: the calls of send_telegram_message in this cycle
    attempts,       \* history: the bot.send_message attempts of the current call
    dropped,        \* history: the (repo, sha) of batches with a failed chunk
    response,       \* history: the kind of answer the latest step got from a service
    recorded,       \* history: the (repo, sha) the tracker was advanced to in this cycle
    resumed         \* history: the current cycle was started by the top-level restart

vars == <<last_commits, messages, repo_i, commit, commit_files, pc, error,
          message, safe_message, chunks, chunk_i,
          cycle, batch, appended, calls, attempts, dropped, response,
          recorded, resumed>>

loopVars == <<messages, repo_i, commit, commit_files>>
sendVars == <<message, safe_message, chunks, chunk_i>>

\* The latest step made no request.
NoResponse == [api |-> "none", kind |-> "none"]

\* repo of "for repo in REPOS"
repo == REPOS[repo_i]

RepoSet == {REPOS[i] : i \in 1..Len(REPOS)}
Pairs == RepoSet \X Shas
SeqToSet(q) == {q[i] : i \in 1..Len(q)}

(***************************************************************************)
(* Init: the process has loaded its configuration, last_commits = {} and   *)
(* the first call of track_repos is at the top of its first cycle.         *)
(***************************************************************************)
Init ==
    /\ last_commits = <<>>
    /\ messages = <<>>
    /\ repo_i = 1
    /\ commit = None
    /\ commit_files = <<>>
    /\ pc = "fetch"
    /\ error = NoneStr
    /\ message = ""
    /\ safe_message = ""
    /\ chunks = <<>>
    /\ chunk_i = 1
    /\ cycle = 1
    /\ batch = <<>>
    /\ appended = [p \in Pairs |-> 0]
    /\ calls = <<>>
    /\ attempts = <<>>
    /\ dropped = {}
    /\ response = NoResponse
    /\ recorded = {}
    /\ resumed = FALSE

(***************************************************************************)
(* track_repos, one action per statement that talks to the outside or      *)
(* changes the state.                                                      *)
(***************************************************************************)
\* The end of the body of "for repo in REPOS": the next repository, or the
\* statement after the loop.
EndOfIteration ==
    IF repo_i < Len(REPOS)
    THEN /\ repo_i' = repo_i + 1
         /\ pc' = "fetch"
    ELSE /\ repo_i' = repo_i
         /\ pc' = "notify"

\* An exception leaves track_repos and asyncio.run and reaches the except
\* clause of __main__.
Propagate(e) ==
    /\ pc' = "crashed"
    /\ error' = e

\* commit = get_latest_commit(repo); if commit:
Fetch ==
    /\ pc = "fetch"
    /\ \E resp \in CommitListResponses(repo) :
         LET r == get_latest_commit(resp)
         IN  /\ response' = [api |-> "commits", kind |-> resp.kind]
             /\ IF r.raised
                THEN /\ Propagate(r.value)
                     /\ UNCHANGED <<repo_i, commit>>
                ELSE IF r.value = None
                     THEN /\ EndOfIteration
                          /\ commit' = None
                          /\ UNCHANGED error
                     ELSE /\ commit' = r.value
                          /\ pc' = "detail"
                          /\ UNCHANGED <<repo_i, error>>
    /\ UNCHANGED <<last_commits, messages, commit_files, sendVars,
                   cycle, batch, appended, calls, attempts, dropped>>
    /\ UNCHANGED <<recorded, resumed>>

\* commit_details = requests.get(commit_details_url, headers=HEADERS).json()
\* commit_files = commit_details.get("files", [])
Detail ==
    /\ pc = "detail"
    /\ \E resp \in CommitDetailResponses(repo, commit.sha) :
         /\ response' = [api |-> "detail", kind |-> resp.kind]
         /\ IF resp.kind = "network_error"
            THEN /\ Propagate("ConnectionError")
                 /\ UNCHANGED commit_files
            ELSE /\ commit_files' = IF "files" \in DOMAIN resp.json
                                    THEN resp.json.files
                                    ELSE <<>>
                 /\ pc' = "check"
                 /\ UNCHANGED error
    /\ UNCHANGED <<last_commits, messages, repo_i, commit, sendVars,
                   cycle, batch, appended, calls, attempts, dropped>>
    /\ UNCHANGED <<recorded, resumed>>

\* Mutant: a repository is new only as long as the tracker has no entry
\* for it.
IsNew_OnlyWithoutEntry(tracker, r, sha) == r \notin DOMAIN tracker

\* last_commits.get(repo) != commit_sha
IsNew(tracker, r, sha) == DictGet(tracker, r) # sha

\* if last_commits.get(repo) != commit_sha: last_commits[repo] = commit_sha
CheckNew ==
    /\ pc = "check"
    /\ IF IsNew(last_commits, repo, commit.sha)
       THEN /\ last_commits' = DictSet(last_commits, repo, commit.sha)
            /\ recorded' = recorded \cup {<<repo, commit.sha>>}
            /\ pc' = "analyze"
            /\ UNCHANGED repo_i
       ELSE /\ EndOfIteration
            /\ UNCHANGED <<last_commits, recorded>>
    /\ UNCHANGED <<messages, commit, commit_files, error, sendVars,
                   cycle, batch, appended, calls, attempts, dropped, resumed>>
    /\ response' = NoResponse

\* summary, sentiment, explanation = analyze_commit(...); messages.append(...)
Analyze ==
    /\ pc = "analyze"
    /\ \E summarizer \in SummarizerResponses(commit.message) :
         LET result == analyze_commit(commit.message, commit_files, summarizer)
         IN  /\ messages' = Append(messages,
                    FormatMessage(repo, result[1], result[2], result[3], commit.html_url))
             /\ response' = [api  |-> "summarizer",
                             kind |-> IF summarizer.raised THEN "error" ELSE "ok"]
    /\ batch' = Append(batch, <<repo, commit.sha>>)
    /\ appended' = [appended EXCEPT ![<<repo, commit.sha>>] = @ + 1]
    /\ EndOfIteration
    /\ UNCHANGED <<last_commits, commit, commit_files, error, sendVars,
                   cycle, calls, attempts, dropped>>
    /\ UNCHANGED <<recorded, resumed>>

\* TextBlob(commit_message).sentiment.polarity raises: analyze_commit does
\* not catch it.
AnalyzeRaises ==
    /\ pc = "analyze"
    /\ Propagate("TextBlobError")
    /\ UNCHANGED <<last_commits, loopVars, sendVars,
                   cycle, batch, appended, calls, attempts, dropped>>
    /\ response' = NoResponse
    /\ UNCHANGED <<recorded, resumed>>

\* Mutant: the messages are joined by a single line break.
BatchText_SingleLineBreak(parts) == Join("\n", parts)

\* "\n\n".join(messages)
BatchText(parts) == Join("\n\n", parts)

\* if messages: await send_telegram_message("\n\n".join(messages))
Notify ==
    /\ pc = "notify"
    /\ IF Len(messages) > 0
       THEN /\ message' = BatchText(messages)
            /\ calls' = Append(calls, [text |-> message', batch |-> batch])
            /\ pc' = "send_entry"
       ELSE /\ pc' = "sleep"
            /\ UNCHANGED <<message, calls>>
    /\ UNCHANGED <<last_commits, loopVars, error, safe_message, chunks, chunk_i,
                   cycle, batch, appended, attempts, dropped>>
    /\ response' = NoResponse
    /\ UNCHANGED <<recorded, resumed>>

(***************************************************************************)
(* send_telegram_message                                                   *)
(***************************************************************************)
\* safe_message = escape_markdown(message); the list of chunks is built
\* before the for loop starts.
SendEntry ==
    /\ pc = "send_entry"
    /\ safe_message' = escape_markdown(message)
    /\ chunks' = Chunks(safe_message')
    /\ chunk_i' = 1
    /\ attempts' = <<>>
    /\ pc' = "send_loop"
    /\ UNCHANGED <<last_commits, loopVars, error, message,
                   cycle, batch, appended, calls, dropped>>
    /\ response' = NoResponse
    /\ UNCHANGED <<recorded, resumed>>

\* await bot.send_message(..., text=chunk, ...) returns; time.sleep(1)
SendChunk ==
    /\ pc = "send_loop"
    /\ chunk_i <= Len(chunks)
    /\ attempts' = Append(attempts, [text |-> chunks[chunk_i], ok |-> TRUE, slept |-> TRUE])
    /\ chunk_i' = chunk_i + 1
    /\ UNCHANGED <<last_commits, loopVars, pc, error, message, safe_message, chunks,
                   cycle, batch, appended, calls, dropped>>
    /\ response' = NoResponse
    /\ UNCHANGED <<recorded, resumed>>

\* Mutant: the exception of bot.send_message is not caught and leaves
\* send_telegram_message and track_repos.
SendChunkFails_Propagates ==
    /\ pc = "send_loop"
    /\ chunk_i <= Len(chunks)
    /\ attempts' = Append(attempts, [text |-> chunks[chunk_i], ok |-> FALSE, slept |-> FALSE])
    /\ dropped' = dropped \cup SeqToSet(batch)
    /\ pc' = "crashed"
    /\ error' = "TelegramError"
    /\ response' = NoResponse
    /\ UNCHANGED <<last_commits, loopVars, sendVars,
                   cycle, batch, appended, calls, recorded, resumed>>

\* await bot.send_message(...) raises; except Exception: logging.error(...)
SendChunkFails ==
    /\ pc = "send_loop"
    /\ chunk_i <= Len(chunks)
    /\ attempts' = Append(attempts, [text |-> chunks[chunk_i], ok |-> FALSE, slept |-> FALSE])
    /\ chunk_i' = chunk_i + 1
    /\ dropped' = dropped \cup SeqToSet(batch)
    /\ UNCHANGED <<last_commits, loopVars, pc, error, message, safe_message, chunks,
                   cycle, batch, appended, calls>>
    /\ response' = NoResponse
    /\ UNCHANGED <<recorded, resumed>>

\* The for loop is exhausted: send_telegram_message returns to track_repos
\* and its locals are gone.
SendReturn ==
    /\ pc = "send_loop"
    /\ chunk_i > Len(chunks)
    /\ pc' = "sleep"
    /\ message' = ""
    /\ safe_message' = ""
    /\ chunks' = <<>>
    /\ chunk_i' = 1
    /\ UNCHANGED <<last_commits, loopVars, error,
                   cycle, batch, appended, calls, attempts, dropped>>
    /\ response' = NoResponse
    /\ UNCHANGED <<recorded, resumed>>

(***************************************************************************)
(* The end of a cycle and the top-level wrapper                            *)
(***************************************************************************)
\* The top of "while True" in track_repos: messages = [] and the for loop
\* starts over.
StartCycle ==
    /\ cycle < MaxCycles
    /\ cycle' = cycle + 1
    /\ messages' = <<>>
    /\ repo_i' = 1
    /\ pc' = "fetch"
    /\ batch' = <<>>
    /\ calls' = <<>>
    /\ attempts' = <<>>
    /\ recorded' = {}

\* await asyncio.sleep(300), then the next iteration of "while True"
Sleep ==
    /\ pc = "sleep"
    /\ StartCycle
    /\ resumed' = FALSE
    /\ UNCHANGED <<last_commits, commit, commit_files, error, sendVars,
                   appended, dropped>>
    /\ response' = NoResponse

\* Mutant: the try statement of __main__ is not inside a loop: after the
\* exception is logged the process ends.
Restart_EndsProcess ==
    /\ pc = "crashed"
    /\ pc' = "exited"
    /\ response' = NoResponse
    /\ UNCHANGED <<last_commits, loopVars, error, sendVars, cycle, batch,
                   appended, calls, attempts, dropped, recorded, resumed>>

\* Mutant: the tracker is a local of track_repos and starts empty in every
\* call.
Restart_ClearsTracker ==
    /\ pc = "crashed"
    /\ StartCycle
    /\ error' = NoneStr
    /\ commit' = None
    /\ commit_files' = <<>>
    /\ resumed' = TRUE
    /\ last_commits' = <<>>
    /\ UNCHANGED <<sendVars, appended, dropped>>
    /\ response' = NoResponse

\* __main__: except Exception: logging.error(...); time.sleep(10); the next
\* iteration of "while True" calls asyncio.run(track_repos()) again.  The
\* locals of the abandoned call are gone; last_commits is a module global.
Restart ==
    /\ pc = "crashed"
    /\ StartCycle
    /\ error' = NoneStr
    /\ commit' = None
    /\ commit_files' = <<>>
    /\ resumed' = TRUE
    /\ UNCHANGED <<last_commits, sendVars, appended, dropped>>
    /\ response' = NoResponse

Next ==
    \/ Fetch
    \/ Detail
    \/ CheckNew
    \/ Analyze
    \/ AnalyzeRaises
    \/ Notify
    \/ SendEntry
    \/ SendChunk
    \/ SendChunkFails
    \/ SendReturn
    \/ Sleep
    \/ Restart

Spec == Init /\ [][Next]_vars

(***************************************************************************)
(* send_telegram_message on its own: the calls of SpecSend hand it texts   *)
(* of up to MaxChunks chunks, plain and with characters to escape, whose   *)
(* escaped lengths lie on and around the multiples of the chunk size.      *)
(***************************************************************************)
\* s * n
RECURSIVE Repeat(_, _)
Repeat(s, n) ==
    IF n = 0 THEN ""
    ELSE IF n = 1 THEN s
    ELSE Repeat(s, n \div 2) \o Repeat(s, n - (n \div 2))

NotifierInputs ==
    LET limit   == MaxChunks * ChunkSize
        lengths == {k * ChunkSize + d : k \in 0..MaxChunks, d \in {0, 1, ChunkSize - 1}}
                       \cup {9000}
        plain   == {Repeat("a", n) : n \in {m \in lengths : m <= limit}}
        dots    == {Repeat(".", n \div 2) : n \in {m \in lengths : m <= limit}}
        mixed   == {Repeat("a_b!", n \div 6) \o "z" : n \in {m \in lengths : m + 1 <= limit}}
    IN  plain \cup dots \cup mixed

InitSend ==
    /\ last_commits = <<>>
    /\ messages = <<>>
    /\ repo_i = 1
    /\ commit = None
    /\ commit_files = <<>>
    /\ pc = "send_entry"
    /\ error = NoneStr
    /\ message \in NotifierInputs
    /\ safe_message = ""
    /\ chunks = <<>>
    /\ chunk_i = 1
    /\ cycle = 1
    /\ batch = <<>>
    /\ appended = [p \in Pairs |-> 0]
    /\ calls = <<>>
    /\ attempts = <<>>
    /\ dropped = {}
    /\ response = NoResponse
    /\ recorded = {}
    /\ resumed = FALSE

NextSend ==
    \/ SendEntry
    \/ SendChunk
    \/ SendChunkFails
    \/ SendReturn

SpecSend == InitSend /\ [][NextSend]_vars

(***************************************************************************)
(* analyze_commit on its own: SpecAnalyze starts track_repos at the call   *)
(* of analyze_commit for the first repository, with a commit message made  *)
(* of up to MaxFragments fragments and one of a few changed-file lists.    *)
(***************************************************************************)
Fragments ==
    {"fix", "Pre", "bug ", "Merge", "re", "moved", "feat", "URE", " docs"}

RECURSIVE FragmentTexts(_)
FragmentTexts(n) ==
    IF n = 0 THEN {""}
    ELSE LET shorter == FragmentTexts(n - 1)
         IN  shorter \cup {t \o f : t \in shorter, f \in Fragments}

FileLists ==
    {<<>>,
     <<[filename |-> "new.py", status |-> "added"]>>,
     <<[filename |-> "old.py", status |-> "removed"]>>,
     <<[filename |-> "core.py", status |-> "modified"]>>,
     <<[filename |-> "b.py", status |-> "renamed"],
       [filename |-> "core.py", status |-> "modified"]>>,
     <<[filename |-> "old.py", status |-> "removed"],
       [filename |-> "new.py", status |-> "added"]>>}

InitAnalyze ==
    /\ last_commits = DictSet(<<>>, REPOS[1], "111")
    /\ messages = <<>>
    /\ repo_i = 1
    /\ \E text \in FragmentTexts(MaxFragments) :
           commit = [CommitOf(REPOS[1], "111") EXCEPT !.message = text]
    /\ commit_files \in FileLists
    /\ pc = "analyze"
    /\ error = NoneStr
    /\ message = ""
    /\ safe_message = ""
    /\ chunks = <<>>
    /\ chunk_i = 1
    /\ cycle = 1
    /\ batch = <<>>
    /\ appended = [p \in Pairs |-> 0]
    /\ calls = <<>>
    /\ attempts = <<>>
    /\ dropped = {}
    /\ response = NoResponse
    /\ recorded = {}
    /\ resumed = FALSE

NextAnalyze ==
    \/ Analyze
    \/ AnalyzeRaises

SpecAnalyze == InitAnalyze /\ [][NextAnalyze]_vars

(***************************************************************************)
(* Properties.                                                             *)
(***************************************************************************)
InLoopBody == pc \in {"fetch", "detail", "check", "analyze"}

\* C1: over any sequence of poll cycles and restarts, and any sequence of
\* shas the commit list returns for a repository, a message for a given
\* (repo, sha) is appended to a batch at most once.
C1_AppendedAtMostOnce ==
    \A p \in Pairs : appended[p] <= 1

\* C2: when the commit-list request for a repository fails, get_latest_commit
\* returns None, no message is added to the batch, no tracker entry changes,
\* and the loop goes on with the next configured repository (the statement
\* after the loop when the repository was the last one).
C2_FetchFailureSkipsRepository ==
    [][(pc = "fetch" /\ response'.kind \in {"network_error", "timeout", "http_error"})
         => /\ commit' = None
            /\ messages' = messages
            /\ batch' = batch
            /\ last_commits' = last_commits
            /\ IF repo_i < Len(REPOS)
               THEN pc' = "fetch" /\ repo_i' = repo_i + 1
               ELSE pc' = "notify"]_vars

\* C2 witness: the fetch for the first repository failed in a cycle that found
\* the tracker already filled; the loop is at the second repository.
C2_Witness ==
    /\ pc = "fetch"
    /\ repo_i = 2
    /\ commit = None
    /\ response.kind = "http_error"
    /\ cycle = 2
    /\ REPOS[1] \in DOMAIN last_commits

\* C3: whatever the outcome of the commit-list request, the call of
\* get_latest_commit ends with a commit or None in the poll loop and never
\* with an exception that leaves the loop.
C3_FetchNeverRaises ==
    [][pc = "fetch" => pc' # "crashed"]_vars

\* C4: when the commit-detail request fails (no response, or an HTTP error
\* status), an empty changed-file list is substituted and the cycle is not
\* aborted: the loop goes on to the tracker check of the same repository.
C4_DetailFailureNeverAborts ==
    [][(pc = "detail" /\ response'.kind # "ok")
         => /\ commit_files' = <<>>
            /\ pc' = "check"
            /\ error' = error
            /\ repo_i' = repo_i]_vars

\* C5: a fetched commit is treated as new exactly when the tracker holds no
\* entry for its repository or holds another sha; treating it as new stores
\* its sha for the repository and changes no other entry, and a commit that
\* is not new leaves the tracker as it is.
C5_NewIffNoEntryOrOtherSha ==
    [][pc = "check"
         => /\ (pc' = "analyze")
                 <=> (repo \notin DOMAIN last_commits \/ last_commits[repo] # commit.sha)
            /\ pc' = "analyze"
                 => /\ DOMAIN last_commits' = DOMAIN last_commits \cup {repo}
                    /\ last_commits'[repo] = commit.sha
                    /\ \A r \in DOMAIN last_commits \ {repo} :
                           last_commits'[r] = last_commits[r]
            /\ pc' # "analyze" => last_commits' = last_commits]_vars

\* C5 witness: a repository whose first sha was processed in an earlier cycle
\* is found new again with a different sha.
C5_Witness ==
    /\ pc = "analyze"
    /\ cycle >= 2
    /\ last_commits[repo] = commit.sha
    /\ \E s \in Shas \ {commit.sha} : appended[<<repo, s>>] = 1

(***************************************************************************)
(* The classifier, under SpecAnalyze.  The keyword sets and the conditions *)
(* are those of the statements checked, written without the operators of   *)
(* analyze_commit.                                                         *)
(***************************************************************************)
BullishKeywords ==
    {"scaling", "upgrade", "performance", "optimization",
     "security", "merge", "enhancement", "feature"}
BearishKeywords ==
    {"bug", "deprecated", "reverted", "removed",
     "issue", "vulnerability", "rollback", "fix"}

Mentions(text, keywords) == \E w \in keywords : Contains(Lower(text), w)
HasFile(files, status) == \E i \in 1..Len(files) : files[i].status = status

\* analyze_commit has returned for the commit in commit and commit_files and
\* its message was appended.
Analyzed == Len(messages) = 1 /\ Len(batch) = 1 /\ error = NoneStr

\* The appended message carries this label and rationale (with a summary the
\* summarizer can give for the commit message).
Labelled(label, reason) ==
    \E summarizer \in SummarizerResponses(commit.message) :
        messages[1] = FormatMessage(batch[1][1],
                                    summarize_text(commit.message, summarizer),
                                    label, reason, commit.html_url)

\* C6: where the indicators do not conflict the label is the stated one:
\* Bullish for a bullish keyword and no bearish keyword; Bearish for a bearish
\* keyword, no bullish keyword and no added file; Neutral, "No strong
\* indicators found.", for no keyword of either set and no added or removed
\* file, whatever modified or renamed files there are.
C6_LabelWithoutConflict ==
    Analyzed =>
        LET bull == Mentions(commit.message, BullishKeywords)
            bear == Mentions(commit.message, BearishKeywords)
            add  == HasFile(commit_files, "added")
            rem  == HasFile(commit_files, "removed")
        IN  /\ (bull /\ ~bear) => Labelled(Bullish, BullishReason)
            /\ (bear /\ ~bull /\ ~add) => Labelled(Bearish, BearishReason)
            /\ (~bull /\ ~bear /\ ~add /\ ~rem) => Labelled(Neutral, NeutralReason)

\* C6 witness: "Merge" in capitals, with a modified and a renamed file, was
\* labelled Bullish.
C6_Witness ==
    /\ Analyzed
    /\ commit.message = "Merge docs"
    /\ Len(commit_files) = 2
    /\ Labelled(Bullish, BullishReason)

\* C7: with at least one added file the result is Bullish, "New features or
\* optimizations detected.", whatever bearish keyword the message has and
\* whatever files were removed.
C7_AddedFileForcesBullish ==
    (Analyzed /\ HasFile(commit_files, "added")) => Labelled(Bullish, BullishReason)

\* C7 witness: a message with the bearish "fix" and "bug", an added and a
\* removed file, labelled Bullish.
C7_Witness ==
    /\ Analyzed
    /\ commit.message = "fixbug "
    /\ HasFile(commit_files, "added")
    /\ HasFile(commit_files, "removed")
    /\ Labelled(Bullish, BullishReason)

(***************************************************************************)
(* Delivery, under Spec and SpecSend.                                      *)
(***************************************************************************)
\* C8: once the delivery of a batch has failed, no message for a (repo, sha)
\* of that batch is produced again in any later cycle.
C8_DroppedNeverProducedAgain ==
    [][\A p \in dropped : appended'[p] = appended[p]]_vars

\* Position of a repository in the configuration.
ConfigIndex(r) == CHOOSE i \in 1..Len(REPOS) : REPOS[i] = r

\* Where part i starts in the parts joined by a two-character separator
\* (counted from 0).
RECURSIVE JoinedOffset(_, _)
JoinedOffset(parts, i) ==
    IF i = 1 THEN 0 ELSE JoinedOffset(parts, i - 1) + Len(parts[i - 1]) + 2

\* text is the parts in order with one blank line between neighbours and
\* nothing else.
BlankLineJoined(text, parts) ==
    LET n == Len(parts)
    IN  /\ n > 0
        /\ Len(text) = JoinedOffset(parts, n) + Len(parts[n])
        /\ \A i \in 1..n :
               SubSeq(text, JoinedOffset(parts, i) + 1,
                      JoinedOffset(parts, i) + Len(parts[i])) = parts[i]
        /\ \A i \in 1..(n - 1) :
               SubSeq(text, JoinedOffset(parts, i + 1) - 1,
                      JoinedOffset(parts, i + 1)) = "\n\n"

\* C9: a cycle that runs to completion has called the notifier once if a new
\* commit was found in it and not at all otherwise; the call is made after
\* the loop over all configured repositories, with the messages of the cycle
\* in configuration order, joined by a blank line.
C9_OneNotifierCallPerCycle ==
    /\ Len(calls) <= 1
    /\ pc = "sleep" => Len(calls) = (IF Len(batch) > 0 THEN 1 ELSE 0)
    /\ Len(calls) = 1 =>
           /\ ~InLoopBody
           /\ repo_i = Len(REPOS)
           /\ calls[1].batch = batch
           /\ Len(messages) = Len(batch)
           /\ \A i \in 1..Len(batch) :
                  LET header == ":bell: **" \o batch[i][1] \o " Update**"
                  IN  Prefix(messages[i], Len(header)) = header
           /\ \A i \in 1..Len(batch) : \A j \in 1..Len(batch) :
                  i < j => ConfigIndex(batch[i][1]) < ConfigIndex(batch[j][1])
           /\ BlankLineJoined(calls[1].text, messages)

\* C9 witness: a completed cycle in which both repositories had a new commit.
C9_Witness ==
    /\ pc = "sleep"
    /\ Len(calls) = 1
    /\ Len(batch) = 2

\* The texts of the attempts, in order.
RECURSIVE AttemptedText(_)
AttemptedText(tries) ==
    IF Len(tries) = 0 THEN ""
    ELSE AttemptedText(SubSeq(tries, 1, Len(tries) - 1)) \o tries[Len(tries)].text

LoopExhausted == pc = "send_loop" /\ chunk_i > Len(chunks)

\* C10: for an escaped message of length L the sends are attempted one after
\* the other, each with a non-empty chunk of at most 4000 characters, the
\* chunks attempted so far being the beginning of the escaped message; when
\* the loop ends, ceil(L / 4000) sends were attempted and their chunks in
\* order make up the escaped message.
C10_ChunksCoverEscapedMessage ==
    pc = "send_loop" =>
        /\ Len(attempts) = chunk_i - 1
        /\ \A i \in 1..Len(attempts) :
               Len(attempts[i].text) >= 1 /\ Len(attempts[i].text) <= 4000
        /\ AttemptedText(attempts)
               = Prefix(safe_message, Len(AttemptedText(attempts)))
        /\ LoopExhausted =>
               /\ Len(attempts) = (Len(safe_message) + 3999) \div 4000
               /\ AttemptedText(attempts) = safe_message

\* C10 witness: 9000 characters after escaping, of which half are escape
\* markers, were attempted in 3 sends, one of which failed.
C10_Witness ==
    /\ LoopExhausted
    /\ Len(message) = 4500
    /\ Len(safe_message) = 9000
    /\ Len(attempts) = 3
    /\ \E i \in 1..3 : ~attempts[i].ok

(***************************************************************************)
(* Delivery inside the poll loop: SpecDeliver starts track_repos after the *)
(* for loop of its first cycle, with a new commit found for every          *)
(* repository and a summarizer that returned a long summary for the first, *)
(* so that the batch is up to MaxChunks chunks long, and follows it to the *)
(* top of the next cycle.                                                  *)
(***************************************************************************)
LongSummaries ==
    {Repeat("a", n) : n \in {10, ChunkSize, ChunkSize + 3000}}
        \cup {Repeat("a.", n) : n \in {1200, 1300, 2600}}
        \cup {Repeat("a", k * ChunkSize - 2000) : k \in 1..MaxChunks}

DeliverMessage(r, sha, summarizer) ==
    LET result == analyze_commit(CommitMessageOf(r, sha), FilesOf(r, sha), summarizer)
    IN  FormatMessage(r, result[1], result[2], result[3], CommitOf(r, sha).html_url)

InitDeliver ==
    /\ last_commits = [r \in RepoSet |-> "111"]
    /\ \E long \in LongSummaries :
         \E short \in SummarizerResponses(CommitMessageOf(REPOS[2], "111")) :
           messages = <<DeliverMessage(REPOS[1], "111",
                                       [raised |-> FALSE, summary_text |-> long]),
                        DeliverMessage(REPOS[2], "111", short)>>
    /\ repo_i = Len(REPOS)
    /\ commit = CommitOf(REPOS[2], "111")
    /\ commit_files = FilesOf(REPOS[2], "111")
    /\ pc = "notify"
    /\ error = NoneStr
    /\ message = ""
    /\ safe_message = ""
    /\ chunks = <<>>
    /\ chunk_i = 1
    /\ cycle = 1
    /\ batch = <<<<REPOS[1], "111">>, <<REPOS[2], "111">>>>
    /\ appended = [p \in Pairs |-> IF p[2] = "111" THEN 1 ELSE 0]
    /\ calls = <<>>
    /\ attempts = <<>>
    /\ dropped = {}
    /\ response = NoResponse
    /\ recorded = {<<REPOS[1], "111">>, <<REPOS[2], "111">>}
    /\ resumed = FALSE

NextDeliver ==
    \/ Notify
    \/ SendEntry
    \/ SendChunk
    \/ SendChunkFails
    \/ SendReturn
    \/ Sleep

SpecDeliver == InitDeliver /\ [][NextDeliver]_vars

\* C11: a failed send of a chunk is swallowed: whatever the outcome of an
\* attempt, the loop goes on with the next chunk, so that every chunk is
\* attempted in order exactly once; send_telegram_message then returns to the
\* sleep step of the cycle, and the next cycle begins, without an exception
\* leaving the loop.
C11_FailedChunkIsSwallowed ==
    [][/\ (pc = "send_loop" /\ chunk_i <= Len(chunks))
            => /\ pc' = "send_loop"
               /\ chunks' = chunks
               /\ chunk_i' = chunk_i + 1
               /\ Len(attempts') = chunk_i
               /\ attempts'[chunk_i].text = chunks[chunk_i]
               /\ SubSeq(attempts', 1, chunk_i - 1) = attempts
               /\ error' = NoneStr
       /\ LoopExhausted
            => /\ pc' = "sleep"
               /\ attempts' = attempts
               /\ Len(attempts) = Len(chunks)
               /\ error' = NoneStr
       /\ pc = "sleep"
            => /\ pc' = "fetch"
               /\ cycle' = cycle + 1
               /\ error' = NoneStr]_vars

\* C11 witness: the first and the last of three chunks failed, all three were
\* attempted and the cycle is at its sleep step.
C11_Witness ==
    /\ pc = "sleep"
    /\ Len(attempts) = 3
    /\ ~attempts[1].ok
    /\ attempts[2].ok
    /\ ~attempts[3].ok
    /\ Len(calls) = 1
    /\ error = NoneStr

(***************************************************************************)
(* The top-level wrapper.  The except clause of __main__ only logs and     *)
(* calls time.sleep(10), which returns, so a process that keeps running    *)
(* leaves the except clause: weak fairness of Restart.  No fairness is     *)
(* assumed for the steps that wait for a remote service.                   *)
(***************************************************************************)
SpecLive == Spec /\ WF_vars(Restart)

\* C12: whenever an exception has left a poll cycle (within the MaxCycles
\* cycles of the model), the wrapper starts track_repos again: a new cycle,
\* the next one, eventually begins at the first repository with an empty
\* batch, also when the cycle that failed was itself started by a restart.
C12_CrashLeadsToNewCycle ==
    \A c \in 1..(MaxCycles - 1) :
        (pc = "crashed" /\ cycle = c)
            ~> (pc = "fetch" /\ repo_i = 1 /\ cycle = c + 1 /\ resumed
                  /\ messages = <<>> /\ error = NoneStr)

\* C12 witness: a cycle that was itself started by a restart has failed in
\* turn (two consecutive failures) and another cycle remains to be started.
C12_Witness ==
    /\ pc = "crashed"
    /\ resumed
    /\ error # NoneStr
    /\ cycle < MaxCycles

(***************************************************************************)
(* escape_markdown on every short text: SpecEscape hands the Notifier      *)
(* each text of up to MaxTextLen characters over the characters of the     *)
(* class, the backslash, a letter and the line break.                      *)
(***************************************************************************)
MaxTextLen == 2

\* The characters between the brackets of the pattern, as written there
\* (the backquote left out).
ControlChars == "_*[]()~>#+-=|{}.!"

CharAt(text, i) == SubSeq(text, i, i)

Alphabet ==
    {CharAt(ControlChars, k) : k \in 1..Len(ControlChars)} \cup {"\\", "a", "\n"}

RECURSIVE TextsUpTo(_)
TextsUpTo(n) ==
    IF n = 0 THEN {""}
    ELSE LET shorter == TextsUpTo(n - 1)
         IN  shorter \cup {t \o c : t \in shorter, c \in Alphabet}

InitEscape ==
    /\ last_commits = <<>>
    /\ messages = <<>>
    /\ repo_i = 1
    /\ commit = None
    /\ commit_files = <<>>
    /\ pc = "send_entry"
    /\ error = NoneStr
    /\ message \in TextsUpTo(MaxTextLen)
    /\ safe_message = ""
    /\ chunks = <<>>
    /\ chunk_i = 1
    /\ cycle = 1
    /\ batch = <<>>
    /\ appended = [p \in Pairs |-> 0]
    /\ calls = <<>>
    /\ attempts = <<>>
    /\ dropped = {}
    /\ response = NoResponse
    /\ recorded = {}
    /\ resumed = FALSE

SpecEscape == InitEscape /\ [][NextSend]_vars

IsControl(c) == \E k \in 1..Len(ControlChars) : CharAt(ControlChars, k) = c

\* The number of control characters among the first i characters of text.
ControlsUpTo(text, i) ==
    Cardinality({j \in 1..i : IsControl(CharAt(text, j))})

\* Where the i-th character of text stands once one marker has been
\* inserted before every control character up to it.
EscapedIndex(text, i) == i + ControlsUpTo(text, i)

\* C13: the escaped text is the input with exactly one backslash inserted
\* immediately before each control character: it is longer by the number of
\* control characters, every input character stands, in order, at its
\* shifted position, and the position before a control character holds the
\* inserted backslash.  Nothing else is added, so taking the inserted
\* markers out gives the input back.
C13_OneMarkerBeforeEachControlChar ==
    pc = "send_loop" =>
        /\ Len(safe_message) = Len(message) + ControlsUpTo(message, Len(message))
        /\ \A i \in 1..Len(message) :
              /\ CharAt(safe_message, EscapedIndex(message, i)) = CharAt(message, i)
              /\ IsControl(CharAt(message, i)) =>
                    CharAt(safe_message, EscapedIndex(message, i) - 1) = "\\"

\* C13 witness: a text made of a backslash of its own and a control
\* character has been escaped: one marker stands between the two.
C13_Witness ==
    /\ pc = "send_loop"
    /\ message = "\\."
    /\ safe_message = "\\\\."

(***************************************************************************)
(* summarize_text on long and short messages: SpecSummarize starts         *)
(* track_repos at the call of analyze_commit with commit messages of       *)
(* lengths below, at and above the length of the fallback, up to           *)
(* MaxMessageLen characters, some with a keyword beyond the fallback.      *)
(***************************************************************************)
MaxMessageLen == 400

CommitMessages ==
    LET digits == Repeat("0123456789", (MaxMessageLen \div 10) + 1)
        cut    == {SubSeq(digits, 1, n) :
                      n \in {1, 12, 13, FallbackLen - 1, FallbackLen,
                             FallbackLen + 1, MaxMessageLen}}
    IN  cut \cup {SubSeq(digits, 1, FallbackLen - 2) \o " fix",
                  SubSeq(digits, 1, FallbackLen) \o " feature",
                  "Merge\n" \o SubSeq(digits, 1, FallbackLen)}

InitSummarize ==
    /\ last_commits = DictSet(<<>>, REPOS[1], "111")
    /\ messages = <<>>
    /\ repo_i = 1
    /\ \E text \in CommitMessages :
           commit = [CommitOf(REPOS[1], "111") EXCEPT !.message = text]
    /\ commit_files \in FileLists
    /\ pc = "analyze"
    /\ error = NoneStr
    /\ message = ""
    /\ safe_message = ""
    /\ chunks = <<>>
    /\ chunk_i = 1
    /\ cycle = 1
    /\ batch = <<>>
    /\ appended = [p \in Pairs |-> 0]
    /\ calls = <<>>
    /\ attempts = <<>>
    /\ dropped = {}
    /\ response = NoResponse
    /\ recorded = {}
    /\ resumed = FALSE

SpecSummarize == InitSummarize /\ [][NextAnalyze]_vars

\* The summarizer call of the commit just analysed failed.
SummarizerFailed ==
    /\ Analyzed
    /\ response.api = "summarizer"
    /\ response.kind = "error"

\* The text of a formatted message up to its summary, and the text that
\* follows the summary.
SummaryLead == ":bell: **" \o REPOS[1] \o " Update**\n:memo: "
SummaryTail == "\n:bar_chart: Sentiment: "

\* C14: when the summarizer call fails, no exception leaves the analysis
\* and the summary in the appended message is exactly the first 200
\* characters of the commit message, or the whole message when it has no
\* more than 200; it is not empty when the commit message is not.
C14_FallbackIsFirst200Chars ==
    SummarizerFailed =>
        LET text     == commit.message
            expected == IF Len(text) <= 200 THEN text ELSE SubSeq(text, 1, 200)
            from     == Len(SummaryLead)
        IN  /\ pc # "crashed"
            /\ SubSeq(messages[1], 1, from) = SummaryLead
            /\ SubSeq(messages[1], from + 1, from + Len(expected)) = expected
            /\ SubSeq(messages[1], from + Len(expected) + 1,
                      from + Len(expected) + Len(SummaryTail)) = SummaryTail
            /\ Len(text) > 0 => Len(expected) > 0

\* C14 witness: the summarizer failed on a commit message of more than 200
\* characters whose keyword lies beyond the fallback.
C14_Witness ==
    /\ SummarizerFailed
    /\ Len(commit.message) > 200
    /\ commit_files = <<>>
    /\ ~Mentions(SubSeq(commit.message, 1, 200), BullishKeywords)
    /\ Labelled(Bullish, BullishReason)

\* C15: the tracker holds a commit id for a repository only once the message
\* of that commit has been appended to a batch: classification and append
\* come before the tracker update, so a failure during classification
\* leaves the tracker as it was.
C15_TrackerOnlyAfterAppend ==
    \A r \in DOMAIN last_commits : appended[<<r, last_commits[r]>>] >= 1

\* C16: every text handed to send_message has at most 4096 characters and is
\* escaped on its own: each control character in it stands after a
\* backslash of the same text, so no chunk begins with a control character
\* whose marker ended the chunk before.
C16_EveryChunkIsEscaped ==
    \A i \in 1..Len(attempts) :
        LET text == attempts[i].text
        IN  /\ Len(text) <= 4096
            /\ \A j \in 1..Len(text) :
                  IsControl(CharAt(text, j)) =>
                      /\ j > 1
                      /\ CharAt(text, j - 1) = "\\"

\* C17: of two consecutive send attempts of one message the earlier one is
\* followed by the pause before the later one starts, whether the earlier
\* attempt succeeded or failed.
C17_PauseBetweenAttempts ==
    \A i \in 1..(Len(attempts) - 1) : attempts[i].slept

\* C18: when a cycle is over, by reaching its sleep or by an exception that
\* left it, every (repo, sha) the tracker was advanced to in that cycle
\* belongs to a batch that was handed to the Notifier in that cycle.
C18_RecordedIsHandedToNotifier ==
    pc \in {"sleep", "crashed"} =>
        \A p \in recorded :
            \E k \in 1..Len(calls) : p \in SeqToSet(calls[k].batch)

\* C19: the restart after an exception changes no entry of the tracker.  In
\* the cycle the restart begins an entry changes only at the check of its
\* own repository, so up to that check it is the entry from before the
\* exception; when the fetched sha equals it, the check neither advances the
\* tracker nor goes on to classification, and a message is appended in that
\* cycle only for a (repo, sha) the check has just recorded as new.
C19_RestartKeepsTracker ==
    [][/\ pc = "crashed" => (last_commits' = last_commits /\ resumed')
       /\ (resumed /\ last_commits' # last_commits) =>
              /\ pc = "check"
              /\ \A r \in DOMAIN last_commits \ {repo} :
                     DictGet(last_commits', r) = last_commits[r]
       /\ (resumed /\ pc = "check" /\ DictGet(last_commits, repo) = commit.sha) =>
              /\ last_commits' = last_commits
              /\ recorded' = recorded
              /\ messages' = messages
              /\ pc' # "analyze"
       /\ (resumed /\ Len(messages') > Len(messages)) =>
              /\ pc = "analyze"
              /\ <<repo, commit.sha>> \in recorded
              /\ batch' = Append(batch, <<repo, commit.sha>>)
      ]_vars

\* C19 witness: in a cycle begun by a restart the first repository's latest
\* commit was fetched, its sha is the one the tracker held, and the loop has
\* moved on to the second repository without a message.
C19_Witness ==
    /\ resumed
    /\ pc = "fetch"
    /\ repo_i = 2
    /\ commit # None
    /\ REPOS[1] \in DOMAIN last_commits
    /\ commit.sha = last_commits[REPOS[1]]
    /\ recorded = {}
    /\ messages = <<>>

====
